---- MODULE Spec2Model ----
(***************************************************************************)
(* A model of upsetplot/data.py: the bitmask codec (_pack_bitmask,         *)
(* CategorizedData._get_unpack_map), CategorizedData (construction,        *)
(* get_counts), CategorizedCounts (get_totals, sort) and from_contents.    *)
(*                                                                         *)
(* Tables of the tabular library are modelled by value:                    *)
(*   - a counts Series with a boolean MultiIndex is                        *)
(*       [names |-> <<level names>>, rows |-> <<[key, val], ...>>]         *)
(*     where key is the tuple of booleans of the row (one per level, in    *)
(*     level order) and val is <<v>> for a value v and <<>> for a missing  *)
(*     value (NaN); flat tells that the index is a plain Index of one      *)
(*     boolean label per row and not a MultiIndex;                         *)
(*   - an exception is the string naming its class.                        *)
(* Three specifications share the module: SpecCounts (CategorizedCounts),  *)
(* SpecData (the codec and CategorizedData) and SpecContents               *)
(* (from_contents).                                                        *)
(***************************************************************************)
EXTENDS Integers, Sequences, FiniteSets, TLC

VARIABLES
    tieOrder,   \* how the library's descending sort orders equal values
    flatReindex,\* what the library's reindex of a one-level MultiIndex by a plain Index does
    unionOrder, \* how the library's concat orders the union of integer indexes
    series,     \* SpecCounts: the Series objects, by identity
    inst,       \* SpecCounts: inst[o] is the Series object instance o's .counts names
    hist,       \* SpecCounts: per instance, the sort call that produced its counts
    last,       \* SpecCounts: the last call, its arguments, what it returned or raised
    calls,      \* SpecCounts: the number of calls made
    dstate,     \* SpecData: the inputs and the results of the calls made on them
    cstate      \* SpecContents: the inputs and the result of from_contents

vars == <<tieOrder, flatReindex, unionOrder, series, inst, hist, last, calls, dstate, cstate>>

\* ------------------------------------------------------------------ bounds

MaxCats == 3
MaxRows == 2
MaxCount == 2
MaxObjs == 2
MaxCalls == 2
MaxWidth == 3
MaxTableRows == 2
MaxMask == 4
MaxMaskCats == 2
MaxIds == 3
MaxElements == 2

\* ----------------------------------------------------------------- helpers

CatNames == <<"a", "b", "c", "d", "e", "f", "g", "h", "i", "j">>

Reverse(s) == [i \in 1..Len(s) |-> s[Len(s) + 1 - i]]

Front(s) == SubSeq(s, 1, Len(s) - 1)

Last(s) == s[Len(s)]

Range(s) == {s[i] : i \in 1..Len(s)}

IndexOf(s, x) == CHOOSE i \in 1..Len(s) : s[i] = x

RECURSIVE SeqSum(_)
SeqSum(s) == IF s = <<>> THEN 0 ELSE s[1] + SeqSum(Tail(s))

RECURSIVE Flatten(_)
Flatten(ss) == IF ss = <<>> THEN <<>> ELSE ss[1] \o Flatten(Tail(ss))

RECURSIVE Pow2(_)
Pow2(n) == IF n = 0 THEN 1 ELSE 2 * Pow2(n - 1)

\* All sequences of distinct elements of S of length at most n.
RECURSIVE DistinctSeqs(_, _)
DistinctSeqs(S, n) ==
    IF n = 0 THEN {<<>>}
    ELSE LET shorter == DistinctSeqs(S, n - 1)
         IN shorter \cup UNION {{Append(t, x) : x \in S \ Range(t)} :
                                   t \in {u \in shorter : Len(u) = n - 1}}

\* The boolean tuples of width n.
Keys(n) == [1..n -> BOOLEAN]

Degree(key) == Cardinality({i \in 1..Len(key) : key[i]})

Missing == <<>>

IsMissing(v) == v = <<>>

\* ------------------------------------------------- the library's value sort

\* A stable ascending sort of records by their field k (numpy argsort on a
\* few elements: insertion sort).
RECURSIVE StableAsc(_)
StableAsc(s) ==
    IF s = <<>> THEN <<>>
    ELSE LET x == Last(s)
             t == StableAsc(Front(s))
         IN SelectSeq(t, LAMBDA e : e.k <= x.k) \o <<x>> \o SelectSeq(t, LAMBDA e : e.k > x.k)

\* Series.sort_values(ascending=False) on the values that are present. The
\* code passes no kind, so the sort is the default quicksort, which leaves the
\* order of equal values to the library build: "stable" keeps equal values in
\* their order (the items are reversed, sorted ascending, reversed back),
\* "reversed" is the ascending argsort read backwards (equal values swap).
DescendingMutAscending(items, order) == StableAsc(items)

Descending(items, order) ==
    IF order = "stable" THEN Reverse(StableAsc(Reverse(items)))
    ELSE Reverse(StableAsc(items))

\* sort_values(ascending=False) with na_position='last': the present values
\* in descending order, then the missing ones in their original order.
sort_values(rows, order) ==
    LET good == SelectSeq(rows, LAMBDA r : ~IsMissing(r.val))
        bad == SelectSeq(rows, LAMBDA r : IsMissing(r.val))
        keyed == [i \in 1..Len(good) |-> [k |-> good[i].val[1], r |-> good[i]]]
        sorted == Descending(keyed, order)
    IN [i \in 1..Len(sorted) |-> sorted[i].r] \o bad

\* ------------------------------------------------------- CategorizedCounts

\* CategorizedCounts.__init__: every level boolean, the index unique.
CountsInitOk(c) ==
    /\ \A i \in 1..Len(c.rows) : c.rows[i].key \in Keys(Len(c.names))
    /\ \A i, j \in 1..Len(c.rows) : i # j => c.rows[i].key # c.rows[j].key

\* CategorizedCounts(counts): line 407 reads counts.index.levels, which a plain
\* Index does not have; then the two assertions.
CountsInit(c) ==
    IF c.flat THEN "AttributeError"
    ELSE IF ~CountsInitOk(c) THEN "AssertionError"
    ELSE "none"

\* agg[agg.index.get_level_values(name).values.astype(bool)].sum(): the rows
\* whose level is true, summed in row order, missing values skipped.
LevelTotalMutAllRows(c, lvl) ==
    SeqSum([i \in 1..Len(c.rows) |->
               IF IsMissing(c.rows[i].val) THEN 0 ELSE c.rows[i].val[1]])

LevelTotal(c, lvl) ==
    LET masked == SelectSeq(c.rows, LAMBDA r : r.key[lvl])
    IN SeqSum([i \in 1..Len(masked) |->
                  IF IsMissing(masked[i].val) THEN 0 ELSE masked[i].val[1]])

\* get_totals: one total per index level, indexed by the level names in order.
get_totals(c) ==
    [names |-> c.names, vals |-> [l \in 1..Len(c.names) |-> LevelTotal(c, l)]]

\* Series.reorder_levels(order): the levels, and each row's key, permuted.
reorder_levelsMutInverse(c, order) ==
    [names |-> order, flat |-> c.flat,
     rows |-> [i \in 1..Len(c.rows) |->
                 [key |-> [j \in 1..Len(order) |-> c.rows[i].key[IndexOf(order, c.names[j])]],
                  val |-> c.rows[i].val]]]

reorder_levels(c, order) ==
    [names |-> order, flat |-> c.flat,
     rows |-> [i \in 1..Len(c.rows) |->
                 [key |-> [j \in 1..Len(order) |-> c.rows[i].key[IndexOf(c.names, order[j])]],
                  val |-> c.rows[i].val]]]

\* itertools.combinations(lo..n, d): the ascending d-tuples in lexicographic order.
RECURSIVE Combinations(_, _, _)
Combinations(lo, n, d) ==
    IF d = 0 THEN << <<>> >>
    ELSE IF lo > n THEN <<>>
    ELSE [i \in 1..Len(Combinations(lo + 1, n, d - 1)) |->
             <<lo>> \o Combinations(lo + 1, n, d - 1)[i]]
         \o Combinations(lo + 1, n, d)

\* The index o of the degree sort: for i in range(nlevels + 1), for names in
\* comb(index.names, i), the row with exactly those names true.
DegreeIndex(n) ==
    LET combos == Flatten([d \in 1..(n + 1) |-> Combinations(1, n, d - 1)])
    IN [i \in 1..Len(combos) |-> [j \in 1..n |-> j \in Range(combos[i])]]

\* Series.reindex(index=o.index): the rows of the new index, each with the
\* value it had, or missing when the old index has no such row.
reindex(c, index) ==
    [names |-> c.names, flat |-> c.flat,
     rows |-> [i \in 1..Len(index) |->
                 [key |-> index[i],
                  val |-> IF \E r \in 1..Len(c.rows) : c.rows[r].key = index[i]
                          THEN c.rows[CHOOSE r \in 1..Len(c.rows) : c.rows[r].key = index[i]].val
                          ELSE Missing]]]

\* Series.reindex(index=o.index) when the Series has a MultiIndex of one
\* level: o.set_index of the one name (line 448) is a plain Index of booleans,
\* none of which is a label of the MultiIndex (its labels are 1-tuples). The
\* library then either fails to make tuples of the plain labels (TypeError
\* for labels held as objects, an uncaught ValueError for labels of dtype
\* bool; the counts stay as they are) or returns the Series over the plain
\* index with every value missing, by its version.
FlatReindex(c, index, build) ==
    IF build \in {"TypeError", "ValueError"}
    THEN [err |-> build, value |-> c]
    ELSE [err |-> "none",
          value |-> [names |-> c.names, flat |-> TRUE,
                     rows |-> [i \in 1..Len(index) |-> [key |-> index[i], val |-> Missing]]]]

\* The Series object instance o's .counts names.
Counts(ser, ins, o) == ser[ins[o]]

\* self.counts = <a new Series object>: the name is bound to a new object,
\* the other instances keep theirs, and an object nothing names is gone.
Rebind(ser, ins, o, value) ==
    LET others == {ins[p] : p \in (1..Len(ins)) \ {o}}
        id == CHOOSE i \in 1..(Len(ins) + 1) :
                  /\ i \notin others
                  /\ \A j \in 1..(i - 1) : j \in others
        ins2 == [ins EXCEPT ![o] = id]
    IN [series |-> [i \in Range(ins2) |-> IF i = id THEN value ELSE ser[i]],
        inst |-> ins2]

\* totals.sort_values(ascending=False); totals.index.values: the level names
\* by descending total.
TotalsOrder(c, order) ==
    LET t == get_totals(c)
        keyed == [i \in 1..Len(t.names) |-> [k |-> t.vals[i], r |-> t.names[i]]]
        sorted == Descending(keyed, order)
    IN [i \in 1..Len(sorted) |-> sorted[i].r]

\* sort(..., inplace=True), lines 428-436: the categories. reorder_levels
\* raises Exception on an index that is not a MultiIndex.
SortCategories(ser, ins, o, sort_categories_by, order) ==
    IF sort_categories_by = "None"
    THEN [series |-> ser, inst |-> ins, err |-> "none"]
    ELSE IF sort_categories_by = "cardinality"
    THEN LET c == Counts(ser, ins, o)
             r == Rebind(ser, ins, o, reorder_levels(c, TotalsOrder(c, order)))
         IN IF c.flat
            THEN [series |-> ser, inst |-> ins, err |-> "Exception"]
            ELSE [series |-> r.series, inst |-> r.inst, err |-> "none"]
    ELSE [series |-> ser, inst |-> ins, err |-> "ValueError"]

\* sort(..., inplace=True), lines 438-451: the rows. sort_values(inplace=True)
\* changes the Series object itself; reindex(copy=False) gives the object
\* back when the index is already the wanted one, and a new object otherwise.
SortRows(ser, ins, o, sort_by, order, build) ==
    LET c == Counts(ser, ins, o)
    IN IF sort_by = "cardinality"
       THEN [series |-> [ser EXCEPT ![ins[o]] = [c EXCEPT !.rows = sort_values(c.rows, order)]],
             inst |-> ins, err |-> "none"]
       ELSE IF sort_by = "degree"
       THEN LET idx == DegreeIndex(Len(c.names))
                r == Rebind(ser, ins, o, reindex(c, idx))
                f == FlatReindex(c, idx, build)
                rf == Rebind(ser, ins, o, f.value)
            IN IF Len(c.names) = 1 /\ ~c.flat
               THEN IF f.err # "none"
                    THEN [series |-> ser, inst |-> ins, err |-> f.err]
                    ELSE [series |-> rf.series, inst |-> rf.inst, err |-> "none"]
               ELSE IF [i \in 1..Len(c.rows) |-> c.rows[i].key] = idx
               THEN [series |-> ser, inst |-> ins, err |-> "none"]
               ELSE [series |-> r.series, inst |-> r.inst, err |-> "none"]
       ELSE [series |-> ser, inst |-> ins, err |-> "ValueError"]

\* sort(sort_by, sort_categories_by, inplace=True): the categories, then the
\* rows; an exception leaves what was done before it.
SortInPlaceEffect(ser, ins, o, sort_by, sort_categories_by, order, build) ==
    LET s1 == SortCategories(ser, ins, o, sort_categories_by, order)
    IN IF s1.err # "none" THEN s1
       ELSE SortRows(s1.series, s1.inst, o, sort_by, order, build)

\* type(self)(self.counts.copy()): a new instance on a new Series object.
CopyMutAlias(ser, ins, o) ==
    [series |-> ser, inst |-> Append(ins, ins[o])]

Copy(ser, ins, o) ==
    LET new == Len(ins) + 1
        id == CHOOSE i \in 1..new : i \notin Range(ins) /\ \A j \in 1..(i - 1) : j \in Range(ins)
    IN [series |-> [i \in Range(ins) \cup {id} |-> IF i = id THEN ser[ins[o]] ELSE ser[i]],
        inst |-> Append(ins, id)]

\* sort(sort_by, sort_categories_by, inplace=False), lines 421-426: the
\* constructor runs on the copy, the copy is sorted in place and returned; an
\* exception of the constructor or of that sort propagates and the copy is
\* dropped.
SortCopyEffect(ser, ins, o, sort_by, sort_categories_by, order, build) ==
    LET cp == Copy(ser, ins, o)
        out == Len(cp.inst)
        s == SortInPlaceEffect(cp.series, cp.inst, out, sort_by, sort_categories_by, order, build)
        kept == SubSeq(s.inst, 1, Len(ins))
    IN IF CountsInit(Counts(ser, ins, o)) # "none"
       THEN [series |-> ser, inst |-> ins, err |-> CountsInit(Counts(ser, ins, o))]
       ELSE IF s.err # "none"
       THEN [series |-> [i \in Range(kept) |-> s.series[i]], inst |-> kept, err |-> s.err]
       ELSE s

\* ----------------------------------------------- SpecCounts: state machine

SortByArgs == {"cardinality", "degree", "bogus"}

SortCategoriesByArgs == {"None", "cardinality", "bogus"}

NoTotals == [names |-> <<>>, vals |-> <<>>]

Snapshot(ser, ins) == [o \in 1..Len(ins) |-> ser[ins[o]]]

NoCall ==
    [op |-> "none", inplace |-> FALSE, obj |-> 0, sort_by |-> "", sort_categories_by |-> "",
     err |-> "none", ret |-> 0, totals |-> NoTotals, pre |-> <<>>,
     preHist |-> [path |-> "none", base |-> <<>>, sort_by |-> "", sort_categories_by |-> ""]]

\* A CategorizedCounts over the first n category names: at most MaxRows
\* distinct combinations in any order, each with a count, on a MultiIndex.
\* (flatReindex is read for an index of one level only.)
InitCounts ==
    /\ tieOrder \in {"stable", "reversed"}
    /\ unionOrder = "appearance"
    /\ \E n \in 1..MaxCats :
         \E ks \in DistinctSeqs(Keys(n), MaxRows) :
           \E vs \in [1..Len(ks) -> 1..MaxCount] :
             LET c == [names |-> SubSeq(CatNames, 1, n), flat |-> FALSE,
                       rows |-> [i \in 1..Len(ks) |-> [key |-> ks[i], val |-> <<vs[i]>>]]]
             IN /\ CountsInit(c) = "none"
                /\ flatReindex \in (IF n = 1 THEN {"TypeError", "ValueError", "flat"}
                                               ELSE {"TypeError"})
                /\ series = [i \in {1} |-> c]
                /\ hist = <<[path |-> "init", base |-> c, sort_by |-> "", sort_categories_by |-> ""]>>
    /\ inst = <<1>>
    /\ last = NoCall
    /\ calls = 0
    /\ dstate = "unused"
    /\ cstate = "unused"

\* counts.sort(sort_by, sort_categories_by, inplace=True) on instance o.
SortInPlace(o, sort_by, sort_categories_by) ==
    LET s == SortInPlaceEffect(series, inst, o, sort_by, sort_categories_by, tieOrder, flatReindex)
    IN /\ calls < MaxCalls
       /\ calls' = calls + 1
       /\ series' = s.series
       /\ inst' = s.inst
       /\ hist' = [hist EXCEPT ![o] =
                      [path |-> IF s.err = "none" THEN "inplace" ELSE "failed",
                       base |-> Counts(series, inst, o),
                       sort_by |-> sort_by, sort_categories_by |-> sort_categories_by]]
       /\ last' = [op |-> "sort", inplace |-> TRUE, obj |-> o, sort_by |-> sort_by,
                   sort_categories_by |-> sort_categories_by, err |-> s.err, ret |-> 0,
                   totals |-> NoTotals, pre |-> Snapshot(series, inst), preHist |-> hist[o]]
       /\ UNCHANGED <<tieOrder, flatReindex, unionOrder, dstate, cstate>>

\* counts.sort(sort_by, sort_categories_by, inplace=False) on instance o: the
\* instance returned is the next one.
SortCopy(o, sort_by, sort_categories_by) ==
    LET s == SortCopyEffect(series, inst, o, sort_by, sort_categories_by, tieOrder, flatReindex)
    IN /\ calls < MaxCalls
       /\ calls' = calls + 1
       /\ Len(inst) < MaxObjs
       /\ series' = s.series
       /\ inst' = s.inst
       /\ hist' = IF s.err = "none"
                  THEN Append(hist, [path |-> "copy", base |-> Counts(series, inst, o),
                                     sort_by |-> sort_by,
                                     sort_categories_by |-> sort_categories_by])
                  ELSE hist
       /\ last' = [op |-> "sort", inplace |-> FALSE, obj |-> o, sort_by |-> sort_by,
                   sort_categories_by |-> sort_categories_by, err |-> s.err,
                   ret |-> IF s.err = "none" THEN Len(s.inst) ELSE 0,
                   totals |-> NoTotals, pre |-> Snapshot(series, inst), preHist |-> hist[o]]
       /\ UNCHANGED <<tieOrder, flatReindex, unionOrder, dstate, cstate>>

\* counts.get_totals() on instance o.
GetTotals(o) ==
    /\ calls < MaxCalls
    /\ calls' = calls + 1
    /\ last' = [op |-> "get_totals", inplace |-> FALSE, obj |-> o, sort_by |-> "",
                sort_categories_by |-> "", err |-> "none", ret |-> 0,
                totals |-> get_totals(Counts(series, inst, o)),
                pre |-> Snapshot(series, inst), preHist |-> hist[o]]
    /\ UNCHANGED <<tieOrder, flatReindex, unionOrder, series, inst, hist, dstate, cstate>>

NextCounts ==
    \E o \in 1..Len(inst) :
        \/ \E sb \in SortByArgs, sc \in SortCategoriesByArgs : SortInPlace(o, sb, sc)
        \/ \E sb \in SortByArgs, sc \in SortCategoriesByArgs : SortCopy(o, sb, sc)
        \/ GetTotals(o)

SpecCounts == InitCounts /\ [][NextCounts]_vars

\* ------------------------------------------------------------ bitmask codec

ByteWidth == 8

UnpackLimit == 8

\* np.packbits(row): the bits of the row from the most significant end of a
\* byte, the rest of the byte zero.
PackBits(row) ==
    SeqSum([i \in 1..Len(row) |-> IF row[i] THEN Pow2(ByteWidth - i) ELSE 0])

\* out = 0; for each column: out *= 2; out += col.
RECURSIVE MulAdd(_)
MulAdd(row) ==
    IF row = <<>> THEN 0
    ELSE 2 * MulAdd(Front(row)) + (IF Last(row) THEN 1 ELSE 0)

\* _pack_bitmask(X), X a boolean table of `width` columns given by its rows:
\* an ndarray of bytes up to eight columns, a Series of integers above.
_pack_bitmask(rows, width) ==
    IF width <= ByteWidth
    THEN [kind |-> "ndarray",
          vals |-> [r \in 1..Len(rows) |-> PackBits(rows[r]) \div Pow2(ByteWidth - width)]]
    ELSE [kind |-> "Series", vals |-> [r \in 1..Len(rows) |-> MulAdd(rows[r])]]

\* np.unpackbits of one byte: its eight bits, most significant first.
UnpackBits(byte) ==
    [i \in 1..ByteWidth |-> (byte \div Pow2(ByteWidth - i)) % 2 = 1]

\* CategorizedData._get_unpack_map on an instance whose indicator_bitmask is
\* `bitmask` and whose category_names is `names`: the assertion, unpackbits
\* (which takes unsigned bytes only), reshape(-1, 8), and the DataFrame of
\* those eight columns under the given column names, which the library
\* refuses unless there are eight names.
_get_unpack_map(bitmask, names) ==
    IF ~(Len(names) < UnpackLimit)
    THEN [err |-> "AssertionError", columns |-> <<>>, rows |-> <<>>]
    ELSE IF bitmask.kind # "ndarray"
    THEN [err |-> "TypeError", columns |-> <<>>, rows |-> <<>>]
    ELSE LET bits == [r \in 1..Len(bitmask.vals) |-> UnpackBits(bitmask.vals[r])]
         IN IF Len(names) # ByteWidth
            THEN [err |-> "ValueError", columns |-> <<>>, rows |-> <<>>]
            ELSE [err |-> "none", columns |-> names, rows |-> bits]

\* --------------------------------------------------------- CategorizedData

NoInstance == [indicator_bitmask |-> [kind |-> "none", vals |-> <<>>],
               data |-> [given |-> FALSE, index |-> <<>>],
               category_names |-> <<>>]

SeqMax(s) == CHOOSE m \in Range(s) : \A x \in Range(s) : x <= m

\* bool() of a Series, which `or`, `and`, `not` and `if` ask for: the library
\* raises ValueError whatever the Series holds.
SeriesTruth(s) == "ValueError"

\* Line 313 read as a test of one number, the maximum of the column.
BitmaskRangeTestMutScalar(vals, names) ==
    IF SeqMax(vals) >= Pow2(Len(names)) \/ SeqMax(vals) < 0 THEN "ValueError" ELSE "none"

\* Line 313. indicators is a DataFrame, so indicators.max() is the Series of
\* the column maxima and each comparison is a Series; `or` asks for the truth
\* value of the left one.
BitmaskRangeTest(vals, names) ==
    LET colmax == <<SeqMax(vals)>>
        left == [i \in 1..Len(colmax) |-> colmax[i] >= Pow2(Len(names))]
    IN SeriesTruth(left)

\* indicators.index = getattr(data, 'index', None), line 329.
SetIndex(packed, data) ==
    IF packed.kind = "ndarray" THEN "AttributeError"
    ELSE IF ~data.given THEN "TypeError"
    ELSE IF Len(data.index) # Len(packed.vals) THEN "ValueError"
    ELSE "none"

\* CategorizedData.__init__(indicators, data, category_names). indicators is
\* a boolean table (dtype "bool", its rows) or one integer column (dtype
\* "int", its vals); category_names and data are [given |-> FALSE] for None.
CategorizedData(indicators, data, category_names) ==
    IF indicators.width = 1 /\ category_names.given /\ indicators.dtype = "int"
    THEN LET e0 == BitmaskRangeTest(indicators.vals, category_names.names)
             col == [kind |-> "Series", vals |-> indicators.vals]
             e1 == SetIndex(col, data)
         IN IF e0 # "none" THEN [err |-> e0, obj |-> NoInstance]
            ELSE IF e1 # "none" THEN [err |-> e1, obj |-> NoInstance]
            ELSE [err |-> "none",
                  obj |-> [indicator_bitmask |-> col, data |-> data,
                           category_names |-> category_names.names]]
    ELSE IF ~category_names.given
    THEN [err |-> "NameError", obj |-> NoInstance]
    ELSE IF Len(category_names.names) # indicators.width
    THEN [err |-> "ValueError", obj |-> NoInstance]
    ELSE IF indicators.dtype # "bool" /\ \E x \in Range(indicators.vals) : x \notin {0, 1}
    THEN [err |-> "ValueError", obj |-> NoInstance]
    ELSE LET packed == _pack_bitmask(indicators.rows, indicators.width)
             e == SetIndex(packed, data)
         IN IF e # "none"
            THEN [err |-> e, obj |-> NoInstance]
            ELSE [err |-> "none",
                  obj |-> [indicator_bitmask |-> packed, data |-> data,
                           category_names |-> category_names.names]]

\* The attributes __init__ gives an instance (lines 330-332); the class
\* defines no other data attribute.
InstanceAttributes == {"indicator_bitmask", "data", "category_names"}

\* groupby(bitmask).size(): one entry per bitmask value present, by ascending
\* value, with the number of rows that have it.
GroupSizes(vals) ==
    LET present == Range(vals)
        RECURSIVE Asc(_)
        Asc(S) == IF S = {} THEN <<>>
                  ELSE LET m == CHOOSE x \in S : \A y \in S : x <= y
                       IN <<m>> \o Asc(S \ {m})
        ks == Asc(present)
    IN [i \in 1..Len(ks) |->
           [key |-> ks[i], val |-> Cardinality({r \in 1..Len(vals) : vals[r] = ks[i]})]]

\* CategorizedData.get_counts(weight), lines 396-400: self.frame is read first.
get_counts(self, weight) ==
    IF "frame" \notin InstanceAttributes
    THEN [err |-> "AttributeError", groups |-> <<>>]
    ELSE [err |-> "none", groups |-> GroupSizes(self.indicator_bitmask.vals)]

\* ------------------------------------------------- SpecData: state machine

NoPacked == [kind |-> "none", vals |-> <<>>]

NoUnpacked == [err |-> "none", columns |-> <<>>, rows |-> <<>>]

NoCounts == [err |-> "none", groups |-> <<>>]

\* Rows for a table one column wider than a byte.
WideRows ==
    {[i \in 1..(ByteWidth + 1) |-> FALSE], [i \in 1..(ByteWidth + 1) |-> TRUE],
     [i \in 1..(ByteWidth + 1) |-> i % 2 = 1]}

\* The indicators arguments: boolean tables of up to MaxWidth columns, boolean
\* tables of nine columns, and single integer columns (bitmasks).
IndicatorInputs ==
    UNION {{[dtype |-> "bool", width |-> w, nrows |-> Len(rs), rows |-> rs, vals |-> <<>>] :
              rs \in UNION {[1..r -> Keys(w)] : r \in 1..MaxTableRows}} : w \in 1..MaxWidth}
    \cup {[dtype |-> "bool", width |-> ByteWidth + 1, nrows |-> Len(rs), rows |-> rs,
            vals |-> <<>>] :
              rs \in UNION {[1..r -> WideRows] : r \in 1..MaxTableRows}}
    \cup {[dtype |-> "int", width |-> 1, nrows |-> Len(vs), rows |-> <<>>, vals |-> vs] :
              vs \in UNION {[1..r -> (0 - 1)..MaxMask] : r \in 1..MaxTableRows}}

InitData ==
    /\ \E ind \in IndicatorInputs :
         \E given \in BOOLEAN :
           \E n \in 1..MaxMaskCats :
             \E dgiven \in BOOLEAN, extra \in 0..1 :
               /\ ind.dtype = "bool" => n = 1
               /\ ~dgiven => extra = 0
               /\ dstate = [op |-> "input",
                            indicators |-> ind,
                            category_names |->
                                [given |-> given,
                                 names |-> IF ind.dtype = "bool"
                                           THEN SubSeq(CatNames, 1, ind.width)
                                           ELSE SubSeq(CatNames, 1, n)],
                            data |-> [given |-> dgiven,
                                      index |-> IF dgiven
                                                THEN [i \in 1..(ind.nrows + extra) |-> i]
                                                ELSE <<>>],
                            packed |-> NoPacked, unpacked |-> NoUnpacked,
                            err |-> "none", obj |-> NoInstance,
                            weight |-> "None", counts |-> NoCounts]
    /\ tieOrder = "stable"
    /\ flatReindex = "TypeError"
    /\ unionOrder = "appearance"
    /\ series = <<>>
    /\ inst = <<>>
    /\ hist = <<>>
    /\ last = NoCall
    /\ calls = 0
    /\ cstate = "unused"

\* _pack_bitmask(T) on the boolean table.
Pack ==
    /\ dstate.op = "input"
    /\ dstate.indicators.dtype = "bool"
    /\ dstate' = [dstate EXCEPT !.op = "pack",
                      !.packed = _pack_bitmask(dstate.indicators.rows, dstate.indicators.width)]
    /\ UNCHANGED <<tieOrder, flatReindex, unionOrder, series, inst, hist, last, calls, cstate>>

\* _get_unpack_map() with the packed bitmask as indicator_bitmask and the
\* table's column names as category_names.
Unpack ==
    /\ dstate.op = "pack"
    /\ dstate' = [dstate EXCEPT !.op = "unpack",
                      !.unpacked = _get_unpack_map(dstate.packed, dstate.category_names.names)]
    /\ UNCHANGED <<tieOrder, flatReindex, unionOrder, series, inst, hist, last, calls, cstate>>

\* CategorizedData(indicators, data, category_names).
Construct ==
    /\ dstate.op = "input"
    /\ LET r == CategorizedData(dstate.indicators, dstate.data, dstate.category_names)
       IN dstate' = [dstate EXCEPT !.op = "construct", !.err = r.err, !.obj = r.obj]
    /\ UNCHANGED <<tieOrder, flatReindex, unionOrder, series, inst, hist, last, calls, cstate>>

\* get_counts(weight) on the instance constructed.
GetCounts(weight) ==
    /\ dstate.op = "construct"
    /\ dstate.err = "none"
    /\ dstate' = [dstate EXCEPT !.op = "get_counts", !.weight = weight,
                      !.counts = get_counts(dstate.obj, weight)]
    /\ UNCHANGED <<tieOrder, flatReindex, unionOrder, series, inst, hist, last, calls, cstate>>

NextData ==
    \/ Pack
    \/ Unpack
    \/ Construct
    \/ \E weight \in {"None", "value"} : GetCounts(weight)

SpecData == InitData /\ [][NextData]_vars

\* ------------------------------------------------------------ from_contents

HasDuplicates(s) == \E i, j \in 1..Len(s) : i < j /\ s[i] = s[j]

\* The elements of s in the order of their first appearance.
RECURSIVE FirstAppearance(_)
FirstAppearance(s) ==
    IF s = <<>> THEN <<>>
    ELSE LET f == FirstAppearance(Front(s))
         IN IF Last(s) \in Range(f) THEN f ELSE Append(f, Last(s))

\* The integers of s in ascending order, each once.
RECURSIVE SortedAsc(_)
SortedAsc(s) ==
    IF s = <<>> THEN <<>>
    ELSE LET m == CHOOSE x \in Range(s) : \A y \in Range(s) : x <= y
         IN <<m>> \o SortedAsc(SelectSeq(s, LAMBDA e : e # m))

\* The row index of concat(cat_series, axis=1): the union of the indexes of
\* the Series. The code does not assure its order; for integer identifiers
\* the library gives it sorted or in order of first appearance, by its
\* version.
UnionIndex(s, order) ==
    IF order = "sorted" THEN SortedAsc(s) ELSE FirstAppearance(s)

\* _contents_to_indicators(contents), contents the (name, elements) pairs of
\* the mapping in iteration order: one True Series per category, concatenated
\* column-wise over the union of their indexes, the gaps filled with False.
_contents_to_indicators(contents, order) ==
    IF \E c \in 1..Len(contents) : HasDuplicates(contents[c].elements)
    THEN [err |-> "ValueError", columns |-> <<>>, index |-> <<>>]
    ELSE IF contents = <<>>
    THEN [err |-> "ValueError", columns |-> <<>>, index |-> <<>>]
    ELSE [err |-> "none",
          columns |-> [c \in 1..Len(contents) |-> contents[c].name],
          index |-> UnionIndex(Flatten([c \in 1..Len(contents) |-> contents[c].elements]),
                               order)]

\* df.reindex(index=data.index), line 262: the rows of the indicator table
\* become those of data's index, in its order.
AlignIndexMutUnion(index, data) == SelectSeq(data.index, LAMBDA x : x \in Range(index))

AlignIndex(index, data) == data.index

\* from_contents(contents, data, id_column). The result is given by its rows
\* in order: the identifier and the category indicators of each.
from_contents(contents, data, id_column, order) ==
    LET df == _contents_to_indicators(contents, order)
        failed == [err |-> "ValueError", cat_names |-> <<>>, rows |-> <<>>]
        Result(index) ==
            [err |-> "none", cat_names |-> df.columns,
             rows |-> [i \in 1..Len(index) |->
                         [id |-> index[i],
                          key |-> [c \in 1..Len(contents) |->
                                     index[i] \in Range(contents[c].elements)]]]]
    IN IF df.err # "none" THEN failed
       ELSE IF id_column \in Range(df.columns) THEN failed
       ELSE IF ~data.given THEN Result(df.index)
       ELSE IF Range(df.columns) \cap data.columns # {} THEN failed
       ELSE IF id_column \in data.columns THEN failed
       ELSE IF \E i \in 1..Len(df.index) : df.index[i] \notin Range(data.index) THEN failed
       ELSE Result(AlignIndex(df.index, data))

\* --------------------------------------------- SpecContents: state machine

Ids == 1..MaxIds

ElementLists == UNION {[1..k -> Ids] : k \in 0..MaxElements}

\* Mappings of one or two categories; the names come with the data columns
\* they can collide with.
CategoryNameLists == {<<"a">>, <<"a", "b">>, <<"b", "id">>}

DataColumnSets == {{"x"}, {"a", "x"}, {"id", "x"}}

NoResult == [err |-> "none", cat_names |-> <<>>, rows |-> <<>>]

InitContents ==
    /\ \E names \in CategoryNameLists :
         \E els \in [1..Len(names) -> ElementLists] :
           \E given \in BOOLEAN :
             \E idx \in DistinctSeqs(Ids, MaxIds), cols \in DataColumnSets :
               /\ ~given => (idx = <<>> /\ cols = {"x"})
               /\ cstate = [op |-> "input",
                            contents |-> [c \in 1..Len(names) |->
                                            [name |-> names[c], elements |-> els[c]]],
                            data |-> [given |-> given, index |-> idx, columns |-> cols],
                            result |-> NoResult]
    /\ tieOrder = "stable"
    /\ flatReindex = "TypeError"
    /\ unionOrder \in {"appearance", "sorted"}
    /\ series = <<>>
    /\ inst = <<>>
    /\ hist = <<>>
    /\ last = NoCall
    /\ calls = 0
    /\ dstate = "unused"

\* from_contents(contents, data) with the default id_column.
FromContents ==
    /\ cstate.op = "input"
    /\ cstate' = [cstate EXCEPT !.op = "from_contents",
                      !.result = from_contents(cstate.contents, cstate.data, "id", unionOrder)]
    /\ UNCHANGED <<tieOrder, flatReindex, unionOrder, series, inst, hist, last, calls, dstate>>

NextContents == FromContents

SpecContents == InitContents /\ [][NextContents]_vars

\* ------------------------------------------------------------------ claims

\* The instance holding the result of the last sort call.
SortResult == IF last.inplace THEN last.obj ELSE last.ret

SortSucceeded == last.op = "sort" /\ last.err = "none"

RECURSIVE SumOver(_, _)
SumOver(S, f) ==
    IF S = {} THEN 0
    ELSE LET x == CHOOSE y \in S : TRUE IN f[x] + SumOver(S \ {x}, f)

\* The (combination, count) entries of a counts Series, a combination being
\* the set of the categories that are true.
Entries(c) ==
    {[cats |-> {c.names[l] : l \in {m \in 1..Len(c.names) : c.rows[i].key[m]}},
      val |-> c.rows[i].val] : i \in 1..Len(c.rows)}

\* C2. A sort with sort_by='degree' (sort_categories_by None or
\* 'cardinality') returns, and the index then has exactly 2^n rows, every
\* boolean combination once, by ascending number of true levels and, within
\* a degree, in the lexicographic order of the true positions over the
\* (possibly reordered) levels: of two rows of one degree, the earlier is
\* true at the first level where they differ.
C2_DegreeSortComplete ==
    (/\ last.op = "sort"
     /\ last.sort_by = "degree"
     /\ last.sort_categories_by \in {"None", "cardinality"}) =>
        /\ last.err = "none"
        /\ LET c == Counts(series, inst, SortResult)
               n == Len(c.names)
           IN /\ Len(c.rows) = Pow2(n)
              /\ \A k \in Keys(n) : Cardinality({i \in 1..Len(c.rows) : c.rows[i].key = k}) = 1
              /\ \A i, j \in 1..Len(c.rows) :
                    i < j => /\ Degree(c.rows[i].key) <= Degree(c.rows[j].key)
                             /\ Degree(c.rows[i].key) = Degree(c.rows[j].key) =>
                                   LET p == CHOOSE q \in 1..n :
                                                /\ c.rows[i].key[q] # c.rows[j].key[q]
                                                /\ \A t \in 1..(q - 1) :
                                                      c.rows[i].key[t] = c.rows[j].key[t]
                                   IN c.rows[i].key[p]

\* C3. get_totals gives, for every index level in level order, exactly the
\* sum of the counts of the rows in which that level is true (a missing
\* count adds nothing), and changes no counts.
C3_TotalsExact ==
    last.op = "get_totals" =>
        LET c == Counts(series, inst, last.obj)
        IN /\ last.totals.names = c.names
           /\ Len(last.totals.vals) = Len(c.names)
           /\ \A l \in 1..Len(c.names) :
                 last.totals.vals[l] =
                     SumOver({i \in 1..Len(c.rows) :
                                 c.rows[i].key[l] /\ ~IsMissing(c.rows[i].val)},
                             [i \in 1..Len(c.rows) |->
                                 IF IsMissing(c.rows[i].val) THEN 0 ELSE c.rows[i].val[1]])
           /\ Snapshot(series, inst) = last.pre

C3_Witness ==
    /\ last.op = "get_totals"
    /\ \E i \in 1..Len(Counts(series, inst, last.obj).rows) :
           IsMissing(Counts(series, inst, last.obj).rows[i].val)
    /\ \E l \in 1..Len(last.totals.vals) : last.totals.vals[l] > MaxCount
    /\ \E l \in 1..Len(last.totals.vals) : last.totals.vals[l] = 0

\* C6. A sort(..., inplace=True) that fails with ValueError leaves the counts
\* of the instance (level order, row order, values) as they were.
C6_FailedSortUnchanged ==
    (last.op = "sort" /\ last.inplace /\ last.err = "ValueError") =>
        Counts(series, inst, last.obj) = last.pre[last.obj]

\* C7. sort(inplace=False) returns a new instance on a Series object of its
\* own and changes the counts of no existing instance (nor when it raises);
\* sort(inplace=True) returns None and changes no other instance; and an
\* instance sorted in place holds the counts that the copy call with the same
\* arguments returned for the same counts.
C7_CopyVersusInPlace ==
    /\ (SortSucceeded /\ ~last.inplace) =>
          /\ last.ret = Len(inst)
          /\ Len(inst) = Len(last.pre) + 1
          /\ inst[last.ret] \notin {inst[o] : o \in 1..Len(last.pre)}
          /\ \A o \in 1..Len(last.pre) : Counts(series, inst, o) = last.pre[o]
    /\ (last.op = "sort" /\ ~last.inplace /\ last.err # "none") =>
          /\ last.ret = 0
          /\ Snapshot(series, inst) = last.pre
    /\ (last.op = "sort" /\ last.inplace) =>
          /\ last.ret = 0
          /\ \A o \in (1..Len(inst)) \ {last.obj} : Counts(series, inst, o) = last.pre[o]
    /\ \A o, o2 \in 1..Len(inst) :
          (/\ hist[o].path = "inplace"
           /\ hist[o2].path = "copy"
           /\ hist[o].base = hist[o2].base
           /\ hist[o].sort_by = hist[o2].sort_by
           /\ hist[o].sort_categories_by = hist[o2].sort_categories_by)
          => Counts(series, inst, o) = Counts(series, inst, o2)

C7_Witness ==
    /\ SortSucceeded
    /\ last.inplace
    /\ last.obj = 1
    /\ Len(inst) = 2
    /\ hist[2].path = "copy"
    /\ hist[2].base = last.pre[1]
    /\ hist[2].sort_by = last.sort_by
    /\ hist[2].sort_categories_by = last.sort_categories_by
    /\ Counts(series, inst, 1) # last.pre[1]
    /\ Counts(series, inst, 1) = Counts(series, inst, 2)

\* C9. Sorting counts that are the result of a sort with the same arguments
\* gives identical counts (level order, row order, values, missing entries).
C9_SortIdempotent ==
    (/\ SortSucceeded
     /\ last.preHist.path \in {"inplace", "copy"}
     /\ last.preHist.sort_by = last.sort_by
     /\ last.preHist.sort_categories_by = last.sort_categories_by)
    => Counts(series, inst, SortResult) = last.pre[last.obj]

\* No two present counts are equal.
DistinctCounts(c) ==
    \A i, j \in 1..Len(c.rows) :
        (i # j /\ ~IsMissing(c.rows[i].val) /\ ~IsMissing(c.rows[j].val))
            => c.rows[i].val[1] # c.rows[j].val[1]

\* No two categories have the same total; the totals are summed here over
\* the entries, apart from get_totals.
DistinctTotals(c) ==
    LET Total(name) ==
            SumOver({i \in 1..Len(c.rows) :
                        c.rows[i].key[IndexOf(c.names, name)] /\ ~IsMissing(c.rows[i].val)},
                    [i \in 1..Len(c.rows) |->
                        IF IsMissing(c.rows[i].val) THEN 0 ELSE c.rows[i].val[1]])
    IN \A x, y \in Range(c.names) : x # y => Total(x) # Total(y)

\* C9 amended. Sorting counts that are the result of a sort with the same
\* arguments gives identical counts, provided that no two present counts are
\* equal when sort_by='cardinality' and no two category totals are equal when
\* sort_categories_by='cardinality'.
C9_SortIdempotentNoTies ==
    (/\ SortSucceeded
     /\ last.preHist.path \in {"inplace", "copy"}
     /\ last.preHist.sort_by = last.sort_by
     /\ last.preHist.sort_categories_by = last.sort_categories_by
     /\ last.sort_by = "cardinality" => DistinctCounts(last.pre[last.obj])
     /\ last.sort_categories_by = "cardinality" => DistinctTotals(last.pre[last.obj]))
    => Counts(series, inst, SortResult) = last.pre[last.obj]

C9_Witness ==
    /\ SortSucceeded
    /\ last.preHist.path = "inplace"
    /\ last.preHist.sort_by = last.sort_by
    /\ last.preHist.sort_categories_by = last.sort_categories_by
    /\ last.sort_by = "cardinality"
    /\ last.sort_categories_by = "cardinality"
    /\ DistinctCounts(last.pre[last.obj])
    /\ DistinctTotals(last.pre[last.obj])
    /\ Len(last.pre[last.obj].names) = 3
    /\ Len(last.pre[last.obj].rows) = 2
    /\ last.preHist.base.names # last.pre[last.obj].names
    /\ last.preHist.base.rows[1].val # last.pre[last.obj].rows[1].val

\* A missing count compares with nothing.
Geq(a, b) == ~IsMissing(a) /\ ~IsMissing(b) /\ a[1] >= b[1]

\* C10 as stated. After a successful sort with sort_by='cardinality' every
\* count is at least the next one along the rows, and the (combination,
\* count) entries are those from before the sort.
C10_NonIncreasingAllRows ==
    (SortSucceeded /\ last.sort_by = "cardinality") =>
        LET c == Counts(series, inst, SortResult)
        IN /\ \A i \in 1..(Len(c.rows) - 1) : Geq(c.rows[i].val, c.rows[i + 1].val)
           /\ Entries(c) = Entries(last.pre[last.obj])
           /\ Len(c.rows) = Len(last.pre[last.obj].rows)

\* C10 amended. After a successful sort with sort_by='cardinality' the counts
\* that are present are non-increasing along the rows, every missing count
\* comes after every present one, and the (combination, count) entries are
\* those from before the sort.
C10_NonIncreasingPresent ==
    (SortSucceeded /\ last.sort_by = "cardinality") =>
        LET c == Counts(series, inst, SortResult)
        IN /\ \A i, j \in 1..Len(c.rows) :
                 i < j => /\ (~IsMissing(c.rows[i].val) /\ ~IsMissing(c.rows[j].val))
                               => c.rows[i].val[1] >= c.rows[j].val[1]
                          /\ IsMissing(c.rows[i].val) => IsMissing(c.rows[j].val)
           /\ Entries(c) = Entries(last.pre[last.obj])
           /\ Len(c.rows) = Len(last.pre[last.obj].rows)

C10_Witness ==
    /\ SortSucceeded
    /\ last.sort_by = "cardinality"
    /\ \E i \in 1..Len(last.pre[last.obj].rows) : IsMissing(last.pre[last.obj].rows[i].val)
    /\ \E i, j \in 1..Len(last.pre[last.obj].rows) :
          /\ i < j
          /\ ~IsMissing(last.pre[last.obj].rows[i].val)
          /\ ~IsMissing(last.pre[last.obj].rows[j].val)
          /\ last.pre[last.obj].rows[i].val[1] < last.pre[last.obj].rows[j].val[1]

\* C1. For a boolean table of fewer than eight columns, unpacking its packed
\* bitmask under its column names gives a table with those columns and the
\* same value in every row and column.
C1_PackUnpackRoundTrip ==
    (dstate.op = "unpack" /\ dstate.indicators.width < 8) =>
        /\ dstate.unpacked.err = "none"
        /\ dstate.unpacked.columns = dstate.category_names.names
        /\ dstate.unpacked.rows = dstate.indicators.rows

\* C4. get_counts returns counts with exactly one entry per bitmask value
\* present among the samples, each the number of the rows with that value.
C4_GetCountsAggregation ==
    dstate.op = "get_counts" =>
        LET vals == dstate.obj.indicator_bitmask.vals
            g == dstate.counts.groups
        IN /\ dstate.counts.err = "none"
           /\ {g[i].key : i \in 1..Len(g)} = Range(vals)
           /\ Len(g) = Cardinality(Range(vals))
           /\ dstate.weight = "None" =>
                 \A i \in 1..Len(g) :
                     g[i].val = Cardinality({r \in 1..Len(vals) : vals[r] = g[i].key})

InMaskRange(vals, n) == \A r \in 1..Len(vals) : 0 <= vals[r] /\ vals[r] <= Pow2(n) - 1

\* C5. Constructing from one integer column with category_names fails with
\* ValueError whenever a value of the column is outside [0, 2^n - 1] (also a
\* negative value beside a maximum inside the range), and succeeds only when
\* every value is inside.
C5_BitmaskRangeValidation ==
    (/\ dstate.op = "construct"
     /\ dstate.indicators.dtype = "int"
     /\ dstate.category_names.given) =>
        LET ok == InMaskRange(dstate.indicators.vals, Len(dstate.category_names.names))
        IN /\ ~ok => dstate.err = "ValueError"
           /\ dstate.err = "none" => ok

C5_Witness ==
    /\ dstate.op = "construct"
    /\ dstate.indicators.dtype = "int"
    /\ dstate.category_names.given
    /\ dstate.data.given
    /\ Len(dstate.data.index) = dstate.indicators.nrows
    /\ \E r \in 1..Len(dstate.indicators.vals) : dstate.indicators.vals[r] < 0
    /\ SeqMax(dstate.indicators.vals) >= 0
    /\ SeqMax(dstate.indicators.vals) < Pow2(Len(dstate.category_names.names))
    /\ dstate.err = "ValueError"

\* The identifiers some category of the contents lists.
ContentsUnion(contents) == UNION {Range(contents[c].elements) : c \in 1..Len(contents)}

\* from_contents was called with data and nothing else is wrong with the
\* arguments: no duplicate in a category, no clash of names.
C8_Case ==
    /\ cstate.op = "from_contents"
    /\ cstate.data.given
    /\ \A c \in 1..Len(cstate.contents) : ~HasDuplicates(cstate.contents[c].elements)
    /\ \A c \in 1..Len(cstate.contents) :
          cstate.contents[c].name \notin cstate.data.columns \cup {"id"}
    /\ "id" \notin cstate.data.columns

\* C8 as stated. With data attached the result has exactly one row per
\* identifier of the union of the contents (the other rows of data are
\* dropped), and an identifier of the union absent from data raises.
C8_UnreferencedDropped ==
    C8_Case =>
        IF ContentsUnion(cstate.contents) \subseteq Range(cstate.data.index)
        THEN /\ cstate.result.err = "none"
             /\ {cstate.result.rows[i].id : i \in 1..Len(cstate.result.rows)}
                    = ContentsUnion(cstate.contents)
             /\ Len(cstate.result.rows) = Cardinality(ContentsUnion(cstate.contents))
        ELSE cstate.result.err = "ValueError"

\* C8 amended. With data attached (its index unique) the result has exactly
\* one row per row of data, in data's order; a row whose identifier no
\* category lists is kept with every indicator false, the others have the
\* indicators of the contents; an identifier of the union absent from data
\* raises ValueError.
C8_UnreferencedKept ==
    C8_Case =>
        IF ContentsUnion(cstate.contents) \subseteq Range(cstate.data.index)
        THEN /\ cstate.result.err = "none"
             /\ [i \in 1..Len(cstate.result.rows) |-> cstate.result.rows[i].id]
                    = cstate.data.index
             /\ \A i \in 1..Len(cstate.result.rows) :
                   \A c \in 1..Len(cstate.contents) :
                     cstate.result.rows[i].key[c]
                        <=> cstate.result.rows[i].id \in Range(cstate.contents[c].elements)
        ELSE cstate.result.err = "ValueError"

C8_Witness ==
    /\ C8_Case
    /\ cstate.result.err = "none"
    /\ \E i \in 1..Len(cstate.result.rows) :
          /\ cstate.result.rows[i].id \notin ContentsUnion(cstate.contents)
          /\ \A c \in 1..Len(cstate.contents) : ~cstate.result.rows[i].key[c]
    /\ \E i \in 1..Len(cstate.result.rows) : \E c \in 1..Len(cstate.contents) :
          cstate.result.rows[i].key[c]

====
